---- MODULE Spec2Model ----
(***************************************************************************)
(* Model of the two Advent of Code 2023 solvers of this repository:        *)
(*   src/src/bin/01.rs  (calibration, calibration_sum)                     *)
(*   src/src/bin/02.rs  (GameData::from_str, validate, cube_power,         *)
(*                       game_id_sum, power_sum)                           *)
(*                                                                         *)
(* A line is a string, read character by character with SubSeq.  A u32 is  *)
(* its four bytes, least significant first, so that the arithmetic keeps   *)
(* its 32-bit width; an exact natural number is a byte sequence of any     *)
(* length.  The character "#" stands for a decimal digit outside ASCII     *)
(* (for instance U+0663): the regex class \d matches it, u32::from_str     *)
(* rejects it.                                                             *)
(***************************************************************************)
EXTENDS Integers, Sequences, FiniteSets, TLC

VARIABLES prog, lines, bag, overflow_checks, pc, idx, item, games, gidx,
          yielded, acc, ret

vars == <<prog, lines, bag, overflow_checks, pc, idx, item, games, gidx,
          yielded, acc, ret>>

(***************************************************************************)
(* Bounds of the model.                                                    *)
(***************************************************************************)
\* longest line drawn letter by letter for calibration
MaxLineLen == 5
\* longest document drawn from the pool of lines
MaxDocLen == 2
\* most "<qty> <color>" pairs in a game line drawn pair by pair
MaxPairs == 2

(***************************************************************************)
(* Strings.                                                                *)
(***************************************************************************)
CharAt(s, i) == IF i >= 1 /\ i <= Len(s) THEN SubSeq(s, i, i) ELSE ""

\* s[i..] (1-based), "" past the end
From(s, i) == IF i <= Len(s) THEN SubSeq(s, i, Len(s)) ELSE ""

\* does the literal w stand at position i of s
LitAt(s, i, w) ==
    /\ i >= 1
    /\ i + Len(w) - 1 <= Len(s)
    /\ SubSeq(s, i, i + Len(w) - 1) = w

RECURSIVE Concat(_)
Concat(ss) == IF ss = <<>> THEN "" ELSE Head(ss) \o Concat(Tail(ss))

(***************************************************************************)
(* Natural numbers as little-endian byte sequences; u32 = 4 bytes.         *)
(***************************************************************************)
Byte == 256

RECURSIVE Norm(_)
Norm(a) ==
    IF a = <<>> THEN <<>>
    ELSE IF a[Len(a)] = 0 THEN Norm(SubSeq(a, 1, Len(a) - 1))
    ELSE a

RECURSIVE AddC(_, _, _)
AddC(a, b, c) ==
    IF a = <<>> /\ b = <<>> THEN (IF c = 0 THEN <<>> ELSE <<c>>)
    ELSE LET x == IF a = <<>> THEN 0 ELSE a[1]
             y == IF b = <<>> THEN 0 ELSE b[1]
             s == x + y + c
         IN  <<s % Byte>> \o AddC(IF a = <<>> THEN <<>> ELSE Tail(a),
                                  IF b = <<>> THEN <<>> ELSE Tail(b),
                                  s \div Byte)

NatAdd(a, b) == Norm(AddC(a, b, 0))

\* a * d + c for a small factor d and a small carry c
RECURSIVE MulSmall(_, _, _)
MulSmall(a, d, c) ==
    IF a = <<>> THEN (IF c = 0 THEN <<>>
                      ELSE <<c % Byte>> \o MulSmall(<<>>, d, c \div Byte))
    ELSE LET s == a[1] * d + c
         IN  <<s % Byte>> \o MulSmall(Tail(a), d, s \div Byte)

RECURSIVE MulRaw(_, _)
MulRaw(a, b) ==
    IF a = <<>> THEN <<>>
    ELSE AddC(MulSmall(b, a[1], 0), <<0>> \o MulRaw(Tail(a), b), 0)

NatMul(a, b) == Norm(MulRaw(a, b))

RECURSIVE ByteInt(_)
ByteInt(n) == IF n = 0 THEN <<>> ELSE <<n % Byte>> \o ByteInt(n \div Byte)

\* the natural number n (n below 2^31)
NatOf(n) == ByteInt(n)

\* a < b on normalised naturals
RECURSIVE NatLtSameLen(_, _)
NatLtSameLen(a, b) ==
    IF a = <<>> THEN FALSE
    ELSE LET k == Len(a)
         IN  IF a[k] # b[k] THEN a[k] < b[k]
             ELSE NatLtSameLen(SubSeq(a, 1, k - 1), SubSeq(b, 1, k - 1))

NatLt(a, b) ==
    LET x == Norm(a)
        y == Norm(b)
    IN  IF Len(x) # Len(y) THEN Len(x) < Len(y) ELSE NatLtSameLen(x, y)

NatLe(a, b) == ~NatLt(b, a)

\* does the natural number fit in 32 bits
FitsU32(a) == Len(Norm(a)) <= 4

\* the low 32 bits of a natural number, as a u32
WrapU32(a) == [i \in 1..4 |-> IF i <= Len(a) THEN a[i] ELSE 0]

U32(n) == WrapU32(NatOf(n))

\* the natural number a u32 holds
NatU32(u) == Norm(u)

\* the maximum replaced by the value seen last
U32MaxKeepsLast(a, b) == b

\* cmp::max on u32
U32Max(a, b) == IF NatLt(a, b) THEN b ELSE a

(***************************************************************************)
(* Day 1: src/src/bin/01.rs                                                *)
(***************************************************************************)
Ok(v) == [tag |-> "Ok", val |-> v]

ParseCalibrationError == [tag |-> "Err", err |-> "ParseCalibrationError"]

\* nothing yielded, nothing returned yet
NoItem == [tag |-> "None"]

\* the alternatives of the regex, in the order the pattern lists them
DigitTokens ==
    <<"1", "2", "3", "4", "5", "6", "7", "8", "9",
      "one", "two", "three", "four", "five", "six", "seven", "eight", "nine">>

\* the pattern cut down to [1-9]: the spelled-out digits are missed
MatchAtMissesWords(line, i) ==
    IF \E k \in 1..9 : LitAt(line, i, DigitTokens[k])
    THEN CharAt(line, i) ELSE ""

\* the first alternative of the regex that matches at position i, "" if none
MatchAt(line, i) ==
    LET hits == {k \in 1..Len(DigitTokens) : LitAt(line, i, DigitTokens[k])}
    IN  IF hits = {} THEN ""
        ELSE DigitTokens[CHOOSE k \in hits : \A j \in hits : k <= j]

\* Regex::find_iter: the successive leftmost matches, each search resuming
\* at the end of the previous match
RECURSIVE find_iter(_, _)
find_iter(line, i) ==
    IF i > Len(line) THEN <<>>
    ELSE LET m == MatchAt(line, i)
         IN  IF m = "" THEN find_iter(line, i + 1)
             ELSE <<m>> \o find_iter(line, i + Len(m))

parse_calibration_digit(d) ==
    CASE d \in {"1", "one"} -> Ok(1)
      [] d \in {"2", "two"} -> Ok(2)
      [] d \in {"3", "three"} -> Ok(3)
      [] d \in {"4", "four"} -> Ok(4)
      [] d \in {"5", "five"} -> Ok(5)
      [] d \in {"6", "six"} -> Ok(6)
      [] d \in {"7", "seven"} -> Ok(7)
      [] d \in {"8", "eight"} -> Ok(8)
      [] d \in {"9", "nine"} -> Ok(9)
      [] OTHER -> ParseCalibrationError

calibration(line) ==
    LET digits == find_iter(line, 1)
    IN  IF digits = <<>> THEN ParseCalibrationError
        ELSE LET first == parse_calibration_digit(digits[1])
                 last == parse_calibration_digit(digits[Len(digits)])
             IN  IF first.tag = "Err" THEN ParseCalibrationError
                 ELSE IF last.tag = "Err" THEN ParseCalibrationError
                 ELSE Ok((first.val * 10) + last.val)

(***************************************************************************)
(* Day 2: src/src/bin/02.rs                                                *)
(***************************************************************************)
ParseGameDataError == [tag |-> "Err", err |-> "ParseGameDataError"]

AsciiDigits == <<"0", "1", "2", "3", "4", "5", "6", "7", "8", "9">>

IsAsciiDigit(c) == \E k \in 1..10 : AsciiDigits[k] = c

DigitValue(c) == (CHOOSE k \in 1..10 : AsciiDigits[k] = c) - 1

\* "#": a decimal digit outside ASCII
UnicodeDigit == "#"

\* the class \d of the regex crate: any Unicode decimal digit
IsRegexDigit(c) == IsAsciiDigit(c) \/ c = UnicodeDigit

\* the number of characters of class \d that stand at s[i], s[i+1], ...
RECURSIVE DigitRun(_, _)
DigitRun(s, i) ==
    IF i <= Len(s) /\ IsRegexDigit(CharAt(s, i)) THEN 1 + DigitRun(s, i + 1)
    ELSE 0

NoMatch == [matched |-> FALSE]

\* Game (\d+):(.*) at position i.  The run of \d is followed by ':', which
\* is no digit, so group 1 is the whole run; .* takes the rest of the line.
re_id_at(s, i) ==
    LET k == DigitRun(s, i + 5)
    IN  IF LitAt(s, i, "Game ") /\ k >= 1 /\ CharAt(s, i + 5 + k) = ":"
        THEN [matched |-> TRUE,
              g1 |-> SubSeq(s, i + 5, i + 4 + k),
              g2 |-> From(s, i + 6 + k)]
        ELSE NoMatch

\* Regex::captures: the leftmost match, anywhere in the text
RECURSIVE re_id_from(_, _)
re_id_from(s, i) ==
    IF i > Len(s) THEN NoMatch
    ELSE IF re_id_at(s, i).matched THEN re_id_at(s, i)
    ELSE re_id_from(s, i + 1)

re_id(s) == re_id_from(s, 1)

CubeColors == <<"blue", "red", "green">>

\* (\d+) (blue|red|green) at position i
re_cube_at(s, i) ==
    LET k == DigitRun(s, i)
        c == {j \in 1..3 : LitAt(s, i + k + 1, CubeColors[j])}
    IN  IF k >= 1 /\ CharAt(s, i + k) = " " /\ c # {}
        THEN [matched |-> TRUE,
              g1 |-> SubSeq(s, i, i + k - 1),
              g2 |-> CubeColors[CHOOSE j \in c : \A j2 \in c : j <= j2]]
        ELSE NoMatch

RECURSIVE re_cube_from(_, _)
re_cube_from(s, i) ==
    IF i > Len(s) THEN NoMatch
    ELSE IF re_cube_at(s, i).matched THEN re_cube_at(s, i)
    ELSE re_cube_from(s, i + 1)

re_cube(s) == re_cube_from(s, 1)

\* str::split on a one-character separator
RECURSIVE SplitFrom(_, _, _, _)
SplitFrom(s, sep, start, i) ==
    IF i > Len(s) THEN <<From(s, start)>>
    ELSE IF CharAt(s, i) = sep
         THEN <<(IF start <= i - 1 THEN SubSeq(s, start, i - 1) ELSE "")>>
              \o SplitFrom(s, sep, i + 1, i + 1)
    ELSE SplitFrom(s, sep, start, i + 1)

split(s, sep) == SplitFrom(s, sep, 1, 1)

\* str::trim (of the white space, the lines hold only the space)
RECURSIVE trim_start(_)
trim_start(s) == IF CharAt(s, 1) = " " THEN trim_start(From(s, 2)) ELSE s

RECURSIVE trim_end(_)
trim_end(s) ==
    IF CharAt(s, Len(s)) = " " THEN trim_end(SubSeq(s, 1, Len(s) - 1)) ELSE s

trim(s) == trim_end(trim_start(s))

\* u32::from_str digit by digit: checked_mul(10) then checked_add(digit)
RECURSIVE ParseDigits(_, _, _)
ParseDigits(s, i, n) ==
    IF i > Len(s) THEN Ok(WrapU32(n))
    ELSE IF ~IsAsciiDigit(CharAt(s, i)) THEN [tag |-> "Err", err |-> "InvalidDigit"]
    ELSE LET m == Norm(MulSmall(n, 10, DigitValue(CharAt(s, i))))
         IN  IF ~FitsU32(m) THEN [tag |-> "Err", err |-> "PosOverflow"]
             ELSE ParseDigits(s, i + 1, m)

\* str::parse::<u32>: an optional '+', then ASCII digits
parse_u32(s) ==
    IF s = "" THEN [tag |-> "Err", err |-> "Empty"]
    ELSE IF CharAt(s, 1) = "+"
         THEN (IF Len(s) = 1 THEN [tag |-> "Err", err |-> "InvalidDigit"]
               ELSE ParseDigits(s, 2, <<>>))
    ELSE ParseDigits(s, 1, <<>>)

\* the cube_info of the line: each group trimmed and split at ","
RECURSIVE CubeInfos(_)
CubeInfos(content) ==
    IF content = <<>> THEN <<>>
    ELSE split(trim(Head(content)), ",") \o CubeInfos(Tail(content))

\* the two nested loops of from_str over the cube_info, the first failure
\* returning ParseGameDataError
RECURSIVE FoldCubes(_, _)
FoldCubes(cubes, rgb) ==
    IF cubes = <<>> THEN Ok(rgb)
    ELSE LET cube_cap == re_cube(Head(cubes))
         IN  IF ~cube_cap.matched THEN ParseGameDataError
             ELSE LET num == parse_u32(cube_cap.g1)
                  IN  IF num.tag = "Err" THEN ParseGameDataError
                      ELSE FoldCubes(Tail(cubes),
                               [rgb EXCEPT ![cube_cap.g2] =
                                    U32Max(rgb[cube_cap.g2], num.val)])

from_str(s) ==
    LET cap == re_id(s)
    IN  IF ~cap.matched THEN ParseGameDataError
        ELSE LET id == parse_u32(cap.g1)
             IN  IF id.tag = "Err" THEN ParseGameDataError
                 ELSE LET content == split(cap.g2, ";")
                          max == FoldCubes(CubeInfos(content),
                                     [red |-> U32(0), green |-> U32(0),
                                      blue |-> U32(0)])
                      IN  IF max.tag = "Err" THEN ParseGameDataError
                          ELSE Ok([id |-> id.val, red |-> max.val.red,
                                   green |-> max.val.green,
                                   blue |-> max.val.blue])

\* the comparison made strict: a maximum equal to the capacity is refused
validate_strict(data, b) ==
    /\ NatLt(data.red, b.red)
    /\ NatLt(data.green, b.green)
    /\ NatLt(data.blue, b.blue)

validate(data, b) ==
    /\ NatLe(data.red, b.red)
    /\ NatLe(data.green, b.green)
    /\ NatLe(data.blue, b.blue)

\* a * b on u32: the exact product when it fits; otherwise a panic with the
\* overflow checks of the build on, the low 32 bits with them off
Panic == [tag |-> "Panic"]

u32_mul(a, b, checks) ==
    LET p == NatMul(NatU32(a), NatU32(b))
    IN  IF FitsU32(p) \/ ~checks THEN Ok(WrapU32(p)) ELSE Panic

u32_add(a, b, checks) ==
    LET p == NatAdd(NatU32(a), NatU32(b))
    IN  IF FitsU32(p) \/ ~checks THEN Ok(WrapU32(p)) ELSE Panic

\* data.red * data.green * data.blue, left to right
cube_power(data, checks) ==
    LET rg == u32_mul(data.red, data.green, checks)
    IN  IF rg.tag = "Panic" THEN Panic
        ELSE u32_mul(rg.val, data.blue, checks)

(***************************************************************************)
(* Inputs of day 1.                                                        *)
(***************************************************************************)
\* the letters of "two" and "one", which overlap in "twone", and a digit
CalChars == {"t", "w", "o", "n", "e", "9"}

\* the lines of the repository's tests, and lines around them
CalSample1 == <<"1abc2", "pqr3stu8vwx", "a1b2c3d4e5f", "treb7uchet">>

CalSample2 ==
    <<"two1nine", "eightwothree", "abcone2threexyz", "xtwone3four",
      "4nineeightseven2", "zoneight234", "7pqrstsixteen">>

CalExtraLines ==
    {"abcd", "ONE", "Two0", "0", "00", "10", "0nine0", "sevenine", "oneight",
     "eightwo", "4"}

CalPool == {"", "abcd", "treb7uchet", "eightwothree", "1abc2"}

RECURSIVE DocsOfLen(_, _)
DocsOfLen(pool, n) ==
    IF n = 0 THEN {<<>>}
    ELSE {Append(d, l) : d \in DocsOfLen(pool, n - 1), l \in pool}

DocsUpTo(pool, n) == UNION {DocsOfLen(pool, k) : k \in 0..n}

Range(f) == {f[i] : i \in DOMAIN f}

\* documents made of lines of the pool, and the documents of the tests
CalDocs ==
    {<<l>> : l \in CalExtraLines \cup Range(CalSample1) \cup Range(CalSample2)}
        \cup DocsUpTo(CalPool, MaxDocLen)
        \cup {CalSample1, CalSample2, <<"", "1abc2", "", "", "treb7uchet", "">>}

(***************************************************************************)
(* calibration_sum, one line of the iterator per step:                     *)
(*   lines.filter(|x| !x.is_empty()).map(|x| calibration(x)).sum()         *)
(* The sum of Result items stops at the first Err.  Every item is below    *)
(* 100, so the u32 accumulator cannot overflow on a document of fewer than *)
(* 43 million lines and is kept as a plain integer.                        *)
(***************************************************************************)
MainBag == [red |-> U32(12), green |-> U32(13), blue |-> U32(14)]

Start ==
    /\ pc = "map"
    /\ idx = 0
    /\ item = NoItem
    /\ games = <<>>
    /\ gidx = 0
    /\ yielded = NoItem
    /\ ret = NoItem

\* calibration_sum on a document
InitCalDocs ==
    /\ prog = "calibration_sum"
    /\ lines \in CalDocs
    /\ bag = MainBag
    /\ overflow_checks \in BOOLEAN
    /\ acc = 0
    /\ Start

\* calibration_sum on one line, every string over CalChars of 1..MaxLineLen
\* letters
InitCalLines ==
    /\ prog = "calibration_sum"
    /\ \E n \in 1..MaxLineLen : \E f \in [1..n -> CalChars] :
           lines = <<Concat(f)>>
    /\ bag = MainBag
    /\ overflow_checks = TRUE
    /\ acc = 0
    /\ Start

InitDay1 == InitCalDocs \/ InitCalLines

\* the filter left out: empty lines reach calibration
CalFilterEmptyKeeps(l) == FALSE

\* .filter(|x| !x.is_empty()) drops the line

CalFilterEmpty(l) == l = ""

CalSkipLine ==
    /\ prog = "calibration_sum"
    /\ pc = "map"
    /\ idx < Len(lines)
    /\ CalFilterEmpty(lines[idx + 1])
    /\ idx' = idx + 1
    /\ item' = NoItem
    /\ UNCHANGED <<prog, lines, bag, overflow_checks, pc, games, gidx,
                   yielded, acc, ret>>

CalMapOk ==
    /\ prog = "calibration_sum"
    /\ pc = "map"
    /\ idx < Len(lines)
    /\ ~CalFilterEmpty(lines[idx + 1])
    /\ LET r == calibration(lines[idx + 1])
       IN  /\ r.tag = "Ok"
           /\ item' = r
           /\ acc' = acc + r.val
    /\ idx' = idx + 1
    /\ UNCHANGED <<prog, lines, bag, overflow_checks, pc, games, gidx,
                   yielded, ret>>

CalMapErr ==
    /\ prog = "calibration_sum"
    /\ pc = "map"
    /\ idx < Len(lines)
    /\ ~CalFilterEmpty(lines[idx + 1])
    /\ LET r == calibration(lines[idx + 1])
       IN  /\ r.tag = "Err"
           /\ item' = r
           /\ ret' = r
    /\ idx' = idx + 1
    /\ pc' = "done"
    /\ UNCHANGED <<prog, lines, bag, overflow_checks, games, gidx, yielded,
                   acc>>

CalReturn ==
    /\ prog = "calibration_sum"
    /\ pc = "map"
    /\ idx = Len(lines)
    /\ ret' = Ok(acc)
    /\ pc' = "done"
    /\ UNCHANGED <<prog, lines, bag, overflow_checks, idx, item, games, gidx,
                   yielded, acc>>

NextDay1 == CalSkipLine \/ CalMapOk \/ CalMapErr \/ CalReturn

SpecDay1 == InitDay1 /\ [][NextDay1]_vars

(***************************************************************************)
(* Inputs of day 2.                                                        *)
(***************************************************************************)
GameSample ==
    <<"Game 1: 3 blue, 4 red; 1 red, 2 green, 6 blue; 2 green",
      "Game 2: 1 blue, 2 green; 3 green, 4 blue, 1 red; 1 green, 1 blue",
      "Game 3: 8 green, 6 blue, 20 red; 5 blue, 4 red, 13 green; 5 green, 1 red",
      "Game 4: 1 green, 3 red, 6 blue; 3 green, 6 red; 3 green, 15 blue, 14 red",
      "Game 5: 6 red, 1 blue, 3 green; 2 blue, 1 red, 2 green">>

\* an empty line, games that pass or fail the bag, a line that does not
\* parse, the greatest id, quantities whose product leaves 32 bits
GamePool ==
    {"", GameSample[1], GameSample[3], "Game 6: 3 yellow",
     "Game 4294967295: 1 red", "Game 7: 65536 red, 65536 green",
     "Game 8: 65536 red, 1 blue, 65536 green"}

GameDocs ==
    DocsUpTo(GamePool, MaxDocLen)
        \cup {GameSample,
              <<"", GameSample[1], "", GameSample[2], "">>,
              <<GameSample[3], GameSample[4], "Game 6: 3 yellow",
                GameSample[1]>>}

\* the bag of main, and a bag that holds exactly the maxima of game 1
TightBag == [red |-> U32(4), green |-> U32(2), blue |-> U32(6)]

Bags == {MainBag, TightBag}

\* what stands before the groups of a drawn line
GameHeads ==
    {"Game 1:", "Game 4294967296:", "Game #:", "Game x:", "xGame 2:",
     "Game 3", "game 1:"}

\* the pairs of a drawn line: well-formed ones, a quantity too large for
\* 32 bits, text before the quantity, a longer and an unknown colour word,
\* a digit outside ASCII, a missing pair
PairTexts ==
    {"3 red", "20 red", "2 green", "6 blue", "4294967296 blue", "x3 red",
     "3 reddish", "3 yellow", "# green", ""}

Separators == {", ", "; "}

RECURSIVE Interleave(_, _)
Interleave(ps, seps) ==
    IF Len(ps) = 1 THEN ps[1]
    ELSE ps[1] \o seps[1] \o Interleave(Tail(ps), Tail(seps))

\* game_id_sum or power_sum on a document
InitGameDocs ==
    /\ prog \in {"game_id_sum", "power_sum"}
    /\ lines \in GameDocs
    /\ bag \in (IF prog = "game_id_sum" THEN Bags ELSE {MainBag})
    /\ overflow_checks \in BOOLEAN
    /\ acc = U32(0)
    /\ Start

\* game_id_sum on one drawn line: a head, then 1..MaxPairs pairs
InitGameLines ==
    /\ prog = "game_id_sum"
    /\ \E h \in GameHeads : \E n \in 1..MaxPairs :
         \E ps \in [1..n -> PairTexts] : \E seps \in [1..(n - 1) -> Separators] :
           lines = <<h \o " " \o Interleave(ps, seps)>>
    /\ bag = MainBag
    /\ overflow_checks = TRUE
    /\ acc = U32(0)
    /\ Start

InitDay2 == InitGameDocs \/ InitGameLines

(***************************************************************************)
(* game_id_sum and power_sum.  First pipeline, one line per step:          *)
(*   lines.filter(|x| !x.is_empty()).map(|x| GameData::from_str(x))        *)
(*        .collect::<Result<Vec<GameData>, ParseGameDataError>>()?         *)
(* then the second pipeline over the Vec, one record per step.             *)
(***************************************************************************)
IsGameProg == prog \in {"game_id_sum", "power_sum"}

CollectSkipLine ==
    /\ IsGameProg
    /\ pc = "map"
    /\ idx < Len(lines)
    /\ lines[idx + 1] = ""
    /\ idx' = idx + 1
    /\ item' = NoItem
    /\ UNCHANGED <<prog, lines, bag, overflow_checks, pc, games, gidx,
                   yielded, acc, ret>>

CollectOk ==
    /\ IsGameProg
    /\ pc = "map"
    /\ idx < Len(lines)
    /\ lines[idx + 1] # ""
    /\ LET r == from_str(lines[idx + 1])
       IN  /\ r.tag = "Ok"
           /\ item' = r
           /\ games' = Append(games, r.val)
    /\ idx' = idx + 1
    /\ UNCHANGED <<prog, lines, bag, overflow_checks, pc, gidx, yielded, acc,
                   ret>>

\* a best-effort collect: the line that does not parse is left out
CollectErrSkips ==
    /\ IsGameProg
    /\ pc = "map"
    /\ idx < Len(lines)
    /\ lines[idx + 1] # ""
    /\ LET r == from_str(lines[idx + 1])
       IN  /\ r.tag = "Err"
           /\ item' = r
    /\ idx' = idx + 1
    /\ UNCHANGED <<prog, lines, bag, overflow_checks, pc, games, gidx,
                   yielded, acc, ret>>

CollectErr ==
    /\ IsGameProg
    /\ pc = "map"
    /\ idx < Len(lines)
    /\ lines[idx + 1] # ""
    /\ LET r == from_str(lines[idx + 1])
       IN  /\ r.tag = "Err"
           /\ item' = r
           /\ ret' = r
    /\ idx' = idx + 1
    /\ pc' = "done"
    /\ UNCHANGED <<prog, lines, bag, overflow_checks, games, gidx, yielded,
                   acc>>

CollectDone ==
    /\ IsGameProg
    /\ pc = "map"
    /\ idx = Len(lines)
    /\ pc' = "fold"
    /\ UNCHANGED <<prog, lines, bag, overflow_checks, idx, item, games, gidx,
                   yielded, acc, ret>>

\* .filter(|x| validate(x, bag)) drops the record
IdSumDrop ==
    /\ prog = "game_id_sum"
    /\ pc = "fold"
    /\ gidx < Len(games)
    /\ ~validate(games[gidx + 1], bag)
    /\ gidx' = gidx + 1
    /\ yielded' = [tag |-> "Dropped"]
    /\ UNCHANGED <<prog, lines, bag, overflow_checks, pc, idx, item, games,
                   acc, ret>>

\* .map(|x| Ok(x.id)).sum() adds the id of a record the filter keeps
IdSumAdd ==
    /\ prog = "game_id_sum"
    /\ pc = "fold"
    /\ gidx < Len(games)
    /\ validate(games[gidx + 1], bag)
    /\ LET s == u32_add(acc, games[gidx + 1].id, overflow_checks)
       IN  /\ s.tag = "Ok"
           /\ acc' = s.val
    /\ gidx' = gidx + 1
    /\ yielded' = Ok(games[gidx + 1].id)
    /\ UNCHANGED <<prog, lines, bag, overflow_checks, pc, idx, item, games,
                   ret>>

\* the addition overflows in a build with overflow checks
IdSumPanic ==
    /\ prog = "game_id_sum"
    /\ pc = "fold"
    /\ gidx < Len(games)
    /\ validate(games[gidx + 1], bag)
    /\ u32_add(acc, games[gidx + 1].id, overflow_checks) = Panic
    /\ gidx' = gidx + 1
    /\ yielded' = Ok(games[gidx + 1].id)
    /\ ret' = Panic
    /\ pc' = "done"
    /\ UNCHANGED <<prog, lines, bag, overflow_checks, idx, item, games, acc>>

\* .map(|x| Ok(cube_power(x))).sum()
PowerSumAdd ==
    /\ prog = "power_sum"
    /\ pc = "fold"
    /\ gidx < Len(games)
    /\ LET p == cube_power(games[gidx + 1], overflow_checks)
       IN  /\ p.tag = "Ok"
           /\ LET s == u32_add(acc, p.val, overflow_checks)
              IN  /\ s.tag = "Ok"
                  /\ acc' = s.val
           /\ yielded' = p
    /\ gidx' = gidx + 1
    /\ UNCHANGED <<prog, lines, bag, overflow_checks, pc, idx, item, games,
                   ret>>

\* a multiplication of cube_power, or the addition, overflows in a build
\* with overflow checks
PowerSumPanic ==
    /\ prog = "power_sum"
    /\ pc = "fold"
    /\ gidx < Len(games)
    /\ LET p == cube_power(games[gidx + 1], overflow_checks)
       IN  /\ \/ p = Panic
              \/ /\ p.tag = "Ok"
                 /\ u32_add(acc, p.val, overflow_checks) = Panic
           /\ yielded' = p
    /\ gidx' = gidx + 1
    /\ ret' = Panic
    /\ pc' = "done"
    /\ UNCHANGED <<prog, lines, bag, overflow_checks, idx, item, games, acc>>

FoldReturn ==
    /\ IsGameProg
    /\ pc = "fold"
    /\ gidx = Len(games)
    /\ ret' = Ok(acc)
    /\ pc' = "done"
    /\ UNCHANGED <<prog, lines, bag, overflow_checks, idx, item, games, gidx,
                   yielded, acc>>

NextDay2 ==
    \/ CollectSkipLine
    \/ CollectOk
    \/ CollectErr
    \/ CollectDone
    \/ IdSumDrop
    \/ IdSumAdd
    \/ IdSumPanic
    \/ PowerSumAdd
    \/ PowerSumPanic
    \/ FoldReturn

SpecDay2 == InitDay2 /\ [][NextDay2]_vars

(***************************************************************************)
(* The three aggregators on documents.                                     *)
(***************************************************************************)
Init == InitCalDocs \/ InitGameDocs

Next == NextDay1 \/ NextDay2

Spec == Init /\ [][Next]_vars

(***************************************************************************)
(* Day 1: what the claims speak of, stated without the scan of the code.   *)
(***************************************************************************)
DigitChar == <<"1", "2", "3", "4", "5", "6", "7", "8", "9">>

DigitName ==
    <<"one", "two", "three", "four", "five", "six", "seven", "eight", "nine">>

IsOccurrence(line, p, d) ==
    LitAt(line, p, DigitChar[d]) \/ LitAt(line, p, DigitName[d])

\* the start positions of the occurrences of the vocabulary in the line
Occ(line) == {p \in 1..Len(line) : \E d \in 1..9 : IsOccurrence(line, p, d)}

OccDigit(line, p) == CHOOSE d \in 1..9 : IsOccurrence(line, p, d)

OccLen(line, p) ==
    IF LitAt(line, p, DigitChar[OccDigit(line, p)]) THEN 1
    ELSE Len(DigitName[OccDigit(line, p)])

\* the occurrences a left-to-right scan for non-overlapping occurrences
\* keeps: an occurrence is kept unless a kept one before it covers its start
NonOverlapping(line) ==
    LET occ == Occ(line)
        kept[p \in 0..Len(line)] ==
            IF p = 0 THEN FALSE
            ELSE /\ p \in occ
                 /\ \A q \in 1..(p - 1) :
                        ~(kept[q] /\ q + OccLen(line, q) > p)
    IN  {p \in occ : kept[p]}

MinOf(S) == CHOOSE x \in S : \A y \in S : x <= y

MaxOf(S) == CHOOSE x \in S : \A y \in S : x >= y

\* the line the map stage was last applied to
CalLine == lines[idx]

CalItemReady == prog = "calibration_sum" /\ idx > 0 /\ item.tag # "None"

\* C1: calibration(line) fails with ParseCalibrationError iff the line holds
\* no occurrence of "1".."9", "one".."nine" ('0' and uppercase names are no
\* tokens); otherwise it is 10*first + last, the digit values of the first
\* and the last token of the scan (one token serves as both), within 11..99.
C1_CalibrationContract ==
    CalItemReady =>
        /\ (item.tag = "Err") <=> (Occ(CalLine) = {})
        /\ item.tag = "Err" => item = ParseCalibrationError
        /\ item.tag = "Ok" =>
              /\ item.val = 10 * OccDigit(CalLine, MinOf(Occ(CalLine)))
                            + OccDigit(CalLine, MaxOf(NonOverlapping(CalLine)))
              /\ item.val \in 11..99
              /\ Cardinality(Occ(CalLine)) = 1 =>
                     item.val = 11 * OccDigit(CalLine, MinOf(Occ(CalLine)))

\* a line with a spelled-out first token and a different last token
C1_Witness ==
    /\ CalItemReady
    /\ item.tag = "Ok"
    /\ Cardinality(Occ(CalLine)) >= 2
    /\ item.val \div 10 # item.val % 10
    /\ LitAt(CalLine, MinOf(Occ(CalLine)), "two")

\* C2: the last digit calibration uses is the value of the occurrence of the
\* vocabulary with the greatest start position in the line, also when that
\* occurrence shares letters with the occurrence before it.
C2_LastOccurrenceUsed ==
    (CalItemReady /\ item.tag = "Ok") =>
        item.val % 10 = OccDigit(CalLine, MaxOf(Occ(CalLine)))

IsNonEmpty(l) == l # ""

RECURSIVE SumOfCalibrations(_)
SumOfCalibrations(ls) ==
    IF ls = <<>> THEN 0
    ELSE calibration(Head(ls)).val + SumOfCalibrations(Tail(ls))

\* the result the claims give calibration_sum on the non-empty lines ls
CalExpected(ls) ==
    IF \E i \in 1..Len(ls) : calibration(ls[i]).tag = "Err"
    THEN ParseCalibrationError
    ELSE Ok(SumOfCalibrations(ls))

CalDone == prog = "calibration_sum" /\ pc = "done"

\* C8: calibration_sum(lines) is the sum of calibration(line) over exactly
\* the non-empty lines: empty lines are skipped without a failure, so the
\* result depends on the non-empty lines alone; no non-empty line gives
\* Ok(0); the two sample documents give 142 and 281.
C8_CalibrationSum ==
    CalDone =>
        /\ ret = CalExpected(SelectSeq(lines, IsNonEmpty))
        /\ SelectSeq(lines, IsNonEmpty) = <<>> => ret = Ok(0)
        /\ lines = CalSample1 => ret = Ok(142)
        /\ lines = CalSample2 => ret = Ok(281)

\* a document whose empty lines stand before, between and after the others
C8_Witness ==
    /\ CalDone
    /\ lines = <<"", "1abc2", "", "", "treb7uchet", "">>
    /\ ret = Ok(89)

(***************************************************************************)
(* Day 2: what the claims speak of.  The grammar of a game line is stated  *)
(* on the positions of the line, without the regexes of the code:          *)
(*   "Game <id>:" then pairs "<qty> <color>" separated by "," or ";",      *)
(* spaces around a pair being free.                                        *)
(***************************************************************************)
Colors == {"red", "green", "blue"}

IsNumeral(t) ==
    /\ t # ""
    /\ \A i \in 1..Len(t) :
           CharAt(t, i) \in {"0", "1", "2", "3", "4", "5", "6", "7", "8", "9"}

\* the natural number a numeral denotes
RECURSIVE NumeralNat(_, _)
NumeralNat(t, n) ==
    IF t = "" THEN n
    ELSE NumeralNat(From(t, 2), Norm(MulSmall(n, 10, DigitValue(CharAt(t, 1)))))

\* a numeral whose number a u32 holds
IsValidNumber(t) == IsNumeral(t) /\ FitsU32(NumeralNat(t, <<>>))

ColonPos(line) == MinOf({p \in 1..Len(line) : CharAt(line, p) = ":"})

HasHead(line) ==
    /\ LitAt(line, 1, "Game ")
    /\ \E p \in 1..Len(line) : CharAt(line, p) = ":"

\* the text at the place of the id: between "Game " and the first ":"
IdText(line) ==
    IF ColonPos(line) > 6 THEN SubSeq(line, 6, ColonPos(line) - 1) ELSE ""

\* the separators after the head, and the two ends
Cuts(line) ==
    {ColonPos(line), Len(line) + 1}
        \cup {p \in (ColonPos(line) + 1)..Len(line) :
                  CharAt(line, p) \in {",", ";"}}

\* the text between a cut and the next one, without the spaces around it
PieceAfter(line, c) ==
    LET next == MinOf({d \in Cuts(line) : d > c})
        inner == {p \in (c + 1)..(next - 1) : CharAt(line, p) # " "}
    IN  IF inner = {} THEN "" ELSE SubSeq(line, MinOf(inner), MaxOf(inner))

\* the pieces of the line, each with the cut it follows
Pieces(line) ==
    {[at |-> c, text |-> PieceAfter(line, c)] :
        c \in Cuts(line) \ {Len(line) + 1}}

\* a piece that is "<qty> <color>" for the colour c
IsPairOf(t, c) ==
    /\ Len(t) > Len(c) + 1
    /\ LitAt(t, Len(t) - Len(c), " " \o c)
    /\ IsNumeral(SubSeq(t, 1, Len(t) - Len(c) - 1))

PairQty(t, c) == SubSeq(t, 1, Len(t) - Len(c) - 1)

IsPair(t) == \E c \in Colors : IsPairOf(t, c)

MatchesGrammar(line) ==
    /\ HasHead(line)
    /\ IsNumeral(IdText(line))
    /\ \A pc0 \in Pieces(line) : IsPair(pc0.text)

\* every number of a line of the grammar is one a u32 holds
NumbersValid(line) ==
    /\ IsValidNumber(IdText(line))
    /\ \A pc0 \in Pieces(line) : \A c \in Colors :
           IsPairOf(pc0.text, c) => IsValidNumber(PairQty(pc0.text, c))

\* the greatest quantity the line gives for the colour c, 0 if it gives none
MaxQuantity(line, c) ==
    LET qs == {NumeralNat(PairQty(pc0.text, c), <<>>) :
                  pc0 \in {x \in Pieces(line) : IsPairOf(x.text, c)}}
    IN  IF qs = {} THEN <<>>
        ELSE CHOOSE q \in qs : \A r \in qs : NatLe(r, q)

GameLine == lines[idx]

GameItemReady == IsGameProg /\ idx > 0 /\ item.tag # "None"

\* C3: for a line of the grammar "Game <id>: <group>;<group>;..." from_str
\* returns the record of the line's id and, per colour, of the greatest
\* quantity over all pairs of all groups, 0 for a colour in no pair.
C3_RecordOfMaxima ==
    (GameItemReady /\ MatchesGrammar(GameLine) /\ NumbersValid(GameLine)) =>
        item = Ok([id |-> WrapU32(NumeralNat(IdText(GameLine), <<>>)),
                   red |-> WrapU32(MaxQuantity(GameLine, "red")),
                   green |-> WrapU32(MaxQuantity(GameLine, "green")),
                   blue |-> WrapU32(MaxQuantity(GameLine, "blue"))])

\* a line whose greatest red quantity is not the last one, with no blue pair
C3_Witness ==
    /\ GameItemReady
    /\ GameLine = "Game 1: 20 red; 3 red"
    /\ item.tag = "Ok"
    /\ item.val.red = U32(20)
    /\ item.val.blue = U32(0)

\* C4: from_str fails with ParseGameDataError for every line that is not of
\* the grammar, in particular with a colour word that is not exactly red,
\* green or blue, or with text around a pair or before "Game".
C4_NonGrammarFails ==
    (GameItemReady /\ ~MatchesGrammar(GameLine)) => item = ParseGameDataError

\* the text at the place of the quantity of a piece: up to its first space
QtyText(t) ==
    LET sp == {p \in 1..Len(t) : CharAt(t, p) = " "}
    IN  IF sp = {} THEN t
        ELSE IF MinOf(sp) = 1 THEN ""
        ELSE SubSeq(t, 1, MinOf(sp) - 1)

HasInvalidNumber(line) ==
    /\ HasHead(line)
    /\ \/ ~IsValidNumber(IdText(line))
       \/ \E pc0 \in Pieces(line) : ~IsValidNumber(QtyText(pc0.text))

\* C10: an id or a quantity that is no valid number (text that is no
\* numeral, or a numeral too large for 32 bits) makes from_str return
\* ParseGameDataError: no record is built from a part of it.
C10_InvalidNumberFails ==
    (GameItemReady /\ HasInvalidNumber(GameLine)) => item = ParseGameDataError

\* the number a u32 holds, as two integers: the high and the low 16 bits
High16(u) == u[4] * 256 + u[3]

Low16(u) == u[2] * 256 + u[1]

AtMost(a, b) ==
    \/ High16(a) < High16(b)
    \/ High16(a) = High16(b) /\ Low16(a) <= Low16(b)

\* the filter of game_id_sum has just decided on games[gidx]
ValidateDecided ==
    /\ prog = "game_id_sum"
    /\ gidx > 0
    /\ yielded.tag \in {"Ok", "Dropped"}

AllParse(ls) == \A i \in 1..Len(ls) : ls[i] # "" => from_str(ls[i]).tag = "Ok"

\* the exact sum of the ids of the records of ls that the bag validates
RECURSIVE ExactIdSum(_, _)
ExactIdSum(ls, b) ==
    IF ls = <<>> THEN <<>>
    ELSE LET g == from_str(Head(ls)).val
         IN  IF validate(g, b)
             THEN NatAdd(NatU32(g.id), ExactIdSum(Tail(ls), b))
             ELSE ExactIdSum(Tail(ls), b)

GameIdDone == prog = "game_id_sum" /\ pc = "done"

\* C6: when all lines parse, game_id_sum(lines, bag) is the sum of the ids
\* of exactly the records that validate accepts; records that fail the
\* validator add nothing and are no error; it is 0 for an empty sequence or
\* when no record is valid; the sample of 5 games gives 8 with the bag
\* {red: 12, green: 13, blue: 14}.
C6_GameIdSum ==
    (GameIdDone /\ AllParse(lines)) =>
        /\ ret.tag = "Ok"
        /\ NatU32(ret.val) = ExactIdSum(SelectSeq(lines, IsNonEmpty), bag)
        /\ (lines = GameSample /\ bag = MainBag) => ret = Ok(U32(8))

\* C6, with the width of the sum: the exact sum when a u32 holds it;
\* otherwise a panic with overflow checks, the low 32 bits without
C6_GameIdSumInU32 ==
    (GameIdDone /\ AllParse(lines)) =>
        LET sum == ExactIdSum(SelectSeq(lines, IsNonEmpty), bag)
        IN  /\ FitsU32(sum) => ret = Ok(WrapU32(sum))
            /\ (~FitsU32(sum) /\ overflow_checks) => ret = Panic
            /\ (~FitsU32(sum) /\ ~overflow_checks) => ret = Ok(WrapU32(sum))
            /\ (lines = GameSample /\ bag = MainBag) => ret = Ok(U32(8))

RECURSIVE ExactPowerSum(_)
ExactPowerSum(ls) ==
    IF ls = <<>> THEN <<>>
    ELSE LET g == from_str(Head(ls)).val
         IN  NatAdd(NatMul(NatMul(NatU32(g.red), NatU32(g.green)),
                           NatU32(g.blue)),
                    ExactPowerSum(Tail(ls)))

PowerDone == prog = "power_sum" /\ pc = "done"

\* C7: when all lines parse, power_sum(lines) is the sum over every record,
\* valid or not, of red * green * blue, so a record without one colour adds
\* 0; it is 0 for an empty sequence; the sample of 5 games gives 2286.
C7_PowerSum ==
    (PowerDone /\ AllParse(lines)) =>
        /\ ret.tag = "Ok"
        /\ NatU32(ret.val) = ExactPowerSum(SelectSeq(lines, IsNonEmpty))
        /\ lines = GameSample => ret = Ok(U32(2286))

\* C7, with the width of the products and of the sum: without overflow
\* checks the low 32 bits of the exact sum; with them that sum unless a
\* product red * green, a product by blue or an addition leaves 32 bits
C7_PowerSumInU32 ==
    (PowerDone /\ AllParse(lines)) =>
        LET sum == ExactPowerSum(SelectSeq(lines, IsNonEmpty))
        IN  /\ ~overflow_checks => ret = Ok(WrapU32(sum))
            /\ ret.tag = "Ok" => ret = Ok(WrapU32(sum))
            /\ (overflow_checks /\ ~FitsU32(sum)) => ret = Panic
            /\ lines = GameSample => ret = Ok(U32(2286))

\* the first non-empty line that does not parse, 0 if all parse
FirstFailing ==
    LET bad == {i \in 1..Len(lines) :
                   /\ lines[i] # ""
                   /\ IF prog = "calibration_sum"
                      THEN calibration(lines[i]).tag = "Err"
                      ELSE from_str(lines[i]).tag = "Err"}
    IN  IF bad = {} THEN 0 ELSE MinOf(bad)

\* C9: if a non-empty line does not parse, each of calibration_sum,
\* game_id_sum and power_sum returns the parse error and no sum, wherever the
\* line stands and whatever the other lines are (also among records the
\* validator would drop); no line after the first failing one is read.
C9_FailFast ==
    (pc = "done" /\ FirstFailing # 0) =>
        /\ ret = (IF prog = "calibration_sum" THEN ParseCalibrationError
                  ELSE ParseGameDataError)
        /\ idx = FirstFailing
        /\ gidx = 0
        /\ yielded = NoItem

\* game_id_sum fails on a line that stands after two games the bag rejects
\* and before a game it accepts
C9_Witness ==
    /\ prog = "game_id_sum"
    /\ pc = "done"
    /\ lines = <<GameSample[3], GameSample[4], "Game 6: 3 yellow",
                 GameSample[1]>>
    /\ bag = MainBag
    /\ ret = ParseGameDataError
    /\ Len(games) = 2

====
